---- MODULE Spec2Model ----
(***************************************************************************)
(* Model of app.py: the /generate-post pipeline of the content generation *)
(* service.  One request runs get_recent_news (one GET to the News        *)
(* Provider) and then, inside one try block, three ChatCompletion calls   *)
(* (title, meta description, article body).  Every action is the code     *)
(* that runs between two blocking outbound calls of one request.          *)
(*                                                                         *)
(* Strings are sequences of tokens: a token is one character or one       *)
(* literal fragment of a prompt template, so that concatenation, strip,   *)
(* join and substring are computed and not assumed.  The Russian literals *)
(* of the source are written in ASCII.                                    *)
(***************************************************************************)
EXTENDS Integers, Sequences, FiniteSets, TLC

VARIABLES
    pc,                \* position of each request in generate_content
    topic,             \* topic.topic of the request
    recent_news,       \* local recent_news of generate_content
    title,             \* local title
    meta_description,  \* local meta_description
    response,          \* HTTP response sent for the request
    calls,             \* outbound calls the request has made, in order
    news_reply,        \* what requests.get gave this request
    completions,       \* what each ChatCompletion.create gave, in order
    config             \* module-level configuration set at import

vars == <<pc, topic, recent_news, title, meta_description, response,
          calls, news_reply, completions, config>>

-----------------------------------------------------------------------------
(* Bounds of the model *)

\* largest number of articles in one News Provider answer (above the cap of 5)
MaxArticles == 6

\* requests in flight at the same time
Reqs == {"r1", "r2"}

\* topics a caller may submit
Topics == {<<"a", "i">>, <<"i", "o", "t">>}

\* raw texts the Completion Provider may return (with and without padding)
RawTexts == {<<" ", "T", " ", "x", "\n">>, <<"U">>}

-----------------------------------------------------------------------------
(* Python string and list helpers *)

Whitespace == {" ", "\n", "\t"}

Min(a, b) == IF a <= b THEN a ELSE b

RECURSIVE lstrip(_)
lstrip(s) ==
    IF s # <<>> /\ Head(s) \in Whitespace THEN lstrip(Tail(s)) ELSE s

RECURSIVE rstrip(_)
rstrip(s) ==
    IF s # <<>> /\ s[Len(s)] \in Whitespace
    THEN rstrip(SubSeq(s, 1, Len(s) - 1))
    ELSE s

\* str.lstrip() in the place of str.strip()
strip_left(s) == lstrip(s)

\* str.strip()
strip(s) == rstrip(lstrip(s))

\* sep.join(parts)
RECURSIVE join(_, _)
join(sep, parts) ==
    IF parts = <<>> THEN <<>>
    ELSE IF Len(parts) = 1 THEN parts[1]
    ELSE parts[1] \o sep \o join(sep, Tail(parts))

\* lst in the place of lst[:n]
FirstN_all(lst, n) == lst

\* lst[:n]
FirstN(lst, n) == SubSeq(lst, 1, Min(Len(lst), n))

\* sub in s
Contains(s, sub) ==
    \E i \in 0..(Len(s) - Len(sub)) : SubSeq(s, i + 1, i + Len(sub)) = sub

-----------------------------------------------------------------------------
(* What the two providers can give back *)

\* headline of the i-th article in the provider's order
Headline(i) == <<"h", ToString(i)>>

\* response.json()["news"] with n articles, in the provider's order
Articles(n) == [i \in 1..n |-> [title |-> Headline(i)]]

\* exception objects: class, and the fields of HTTPException or str(e)
Exc(cls, msg) == [cls |-> cls, status_code |-> 0, detail |-> <<>>, msg |-> msg]

HTTPException(status_code, detail) ==
    [cls |-> "fastapi.HTTPException", status_code |-> status_code,
     detail |-> detail, msg |-> <<>>]

\* outcomes of requests.get(url, params=params): a response with a status, a
\* text and a JSON body (with or without the "news" key), or a network error
NewsReplies ==
    {[kind |-> "response", status_code |-> 200, text |-> <<"o", "k">>,
      has_news |-> TRUE, news |-> Articles(n), exc |-> Exc("", <<>>)]
        : n \in 0..MaxArticles}
    \cup
    {[kind |-> "response", status_code |-> 200, text |-> <<"o", "k">>,
      has_news |-> FALSE, news |-> <<>>, exc |-> Exc("", <<>>)],
     [kind |-> "response", status_code |-> 429, text |-> <<"l", "i", "m">>,
      has_news |-> FALSE, news |-> <<>>, exc |-> Exc("", <<>>)],
     [kind |-> "raise", status_code |-> 0, text |-> <<>>,
      has_news |-> FALSE, news |-> <<>>,
      exc |-> Exc("requests.exceptions.ConnectionError", <<"r", "e", "f">>)]}

\* exception classes a ChatCompletion.create call can end with: the timeout of
\* the requests library, the timeout of the openai library, a provider error
CompletionErrors ==
    {"requests.exceptions.Timeout", "openai.error.Timeout",
     "openai.error.APIError"}

\* outcomes of openai.ChatCompletion.create(...).choices[0].message.content
CompletionReplies ==
    {[kind |-> "response", text |-> t, exc |-> Exc("", <<>>)] : t \in RawTexts}
    \cup
    {[kind |-> "raise", text |-> <<>>, exc |-> Exc(c, <<"e", ":", c>>)]
        : c \in CompletionErrors}

\* direct base class of an exception class
Parent(cls) ==
    CASE cls = "requests.exceptions.Timeout" -> "requests.exceptions.RequestException"
      [] cls = "requests.exceptions.ConnectionError" -> "requests.exceptions.RequestException"
      [] cls = "requests.exceptions.RequestException" -> "Exception"
      [] cls = "openai.error.Timeout" -> "openai.error.OpenAIError"
      [] cls = "openai.error.APIError" -> "openai.error.OpenAIError"
      [] cls = "openai.error.OpenAIError" -> "Exception"
      [] cls = "fastapi.HTTPException" -> "Exception"
      [] OTHER -> "BaseException"

\* isinstance(e, base), as an except clause decides it
RECURSIVE IsInstance(_, _)
IsInstance(cls, base) ==
    IF cls = base THEN TRUE
    ELSE IF cls = "BaseException" THEN FALSE
    ELSE IsInstance(Parent(cls), base)

-----------------------------------------------------------------------------
(* get_recent_news *)

\* number of headlines kept by news_data[:5]
NEWS_LIMIT == 5

\* "Svezhikh novostei ne naideno."
NO_NEWS == <<"No fresh news found.">>

Return(value) == [kind |-> "return", value |-> value, exc |-> Exc("", <<>>)]

Raise(exc) == [kind |-> "raise", value |-> <<>>, exc |-> exc]

\* response.json().get("news", [])
news_data(reply) == IF reply.has_news THEN reply.news ELSE <<>>

\* get_recent_news with every failure of the provider turned into "no news"
get_recent_news_swallow(reply) ==
    IF reply.kind = "raise" \/ reply.status_code # 200 THEN Return(NO_NEWS)
    ELSE IF news_data(reply) = <<>> THEN Return(NO_NEWS)
    ELSE Return(join(<<"\n">>,
                     [i \in 1..Len(FirstN(news_data(reply), NEWS_LIMIT)) |->
                         FirstN(news_data(reply), NEWS_LIMIT)[i].title]))

\* the body of get_recent_news after requests.get has come back with reply:
\* a network error propagates, a status other than 200 raises
\* HTTPException(500), no article gives the sentinel, otherwise the titles of
\* the first five articles joined by newlines
get_recent_news(reply) ==
    IF reply.kind = "raise" THEN Raise(reply.exc)
    ELSE IF reply.status_code # 200
    THEN Raise(HTTPException(500, <<"Error while fetching data: ">> \o reply.text))
    ELSE IF news_data(reply) = <<>> THEN Return(NO_NEWS)
    ELSE Return(join(<<"\n">>,
                     [i \in 1..Len(FirstN(news_data(reply), NEWS_LIMIT)) |->
                         FirstN(news_data(reply), NEWS_LIMIT)[i].title]))

-----------------------------------------------------------------------------
(* generate_content *)

\* content of the message of the title call
title_prompt(t, news) ==
    <<"Come up with a headline for an article on the topic '">> \o t
    \o <<"', taking into account the latest news:", "\n">> \o news
    \o <<". The headline must be interesting and convey the topic.">>

\* the meta description prompt built from the template alone
description_prompt_untitled(ttl) ==
    <<"Write a meta description for the article with the headline: '">>
    \o <<"'. It must be complete, informative and contain the keywords.">>

\* content of the message of the meta description call
description_prompt(ttl) ==
    <<"Write a meta description for the article with the headline: '">> \o ttl
    \o <<"'. It must be complete, informative and contain the keywords.">>

\* content of the message of the article body call
body_prompt(t, news) ==
    <<"Write a detailed article on the topic '">> \o t
    \o <<"', using the latest news:", "\n">> \o news
    \o <<". ", "\n", "The article must be: 1. ... 8. ...">>

\* "Prevysheno vremya ozhidaniya otveta ot ProxyAPI"
TIMEOUT_DETAIL == <<"Timed out waiting for the answer of ProxyAPI">>

\* the except clauses with a fixed detail in the place of str(e)
generation_except_nocause(e) ==
    IF IsInstance(e.cls, "requests.exceptions.Timeout")
    THEN HTTPException(504, TIMEOUT_DETAIL)
    ELSE IF IsInstance(e.cls, "Exception")
    THEN HTTPException(500, <<"Error while generating content: ">>)
    ELSE e

\* the two except clauses of generate_content, in their order
generation_except(e) ==
    IF IsInstance(e.cls, "requests.exceptions.Timeout")
    THEN HTTPException(504, TIMEOUT_DETAIL)
    ELSE IF IsInstance(e.cls, "Exception")
    THEN HTTPException(500, <<"Error while generating content: ">> \o e.msg)
    ELSE e

\* the returned dict without the article body
content_dict_partial(ttl, meta, post) ==
    [title |-> ttl, meta_description |-> meta]

\* the dict returned at the end of the try block
content_dict(ttl, meta, post) ==
    [title |-> ttl, meta_description |-> meta, post_content |-> post]

-----------------------------------------------------------------------------
(* generate_post_api: what the framework sends for the handler's outcome *)

NoResponse == [status |-> 0, body |-> <<>>]

\* a returned dict is sent with 200, an HTTPException with its status and
\* {"detail": ...}, any other exception as 500 Internal Server Error
http_response(outcome) ==
    IF outcome.kind = "return"
    THEN [status |-> 200, body |-> outcome.value]
    ELSE IF outcome.exc.cls = "fastapi.HTTPException"
    THEN [status |-> outcome.exc.status_code,
          body |-> [detail |-> outcome.exc.detail]]
    ELSE [status |-> 500, body |-> [text |-> <<"Internal Server Error">>]]

-----------------------------------------------------------------------------
(* The requests *)

Steps == {"idle", "await_news", "await_title", "await_description",
          "await_body", "done"}

\* openai.api_key, currentsapi_key, openai.api_base and openai.api_version
\* once the module is imported: both keys are set (the import raises
\* ValueError otherwise and no request is served)
StartupConfig ==
    [api_key |-> "OPENAI_API_KEY", currentsapi_key |-> "CURRENTS_API_KEY",
     api_base |-> "https://api.proxyapi.ru/openai/v1",
     api_version |-> "2023-05-15"]

NewsCall(t) == [to |-> "news", step |-> "news", content |-> t]

CompletionCall(step, prompt) ==
    [to |-> "completion", step |-> step, content |-> prompt]

Init ==
    /\ pc = [r \in Reqs |-> "idle"]
    /\ topic = [r \in Reqs |-> <<>>]
    /\ recent_news = [r \in Reqs |-> <<>>]
    /\ title = [r \in Reqs |-> <<>>]
    /\ meta_description = [r \in Reqs |-> <<>>]
    /\ response = [r \in Reqs |-> NoResponse]
    /\ calls = [r \in Reqs |-> <<>>]
    /\ news_reply = [r \in Reqs |-> <<>>]
    /\ completions = [r \in Reqs |-> <<>>]
    /\ config = StartupConfig

\* the handler's outcome is sent and the request is over
Finish(r, outcome) ==
    /\ response' = [response EXCEPT ![r] = http_response(outcome)]
    /\ pc' = [pc EXCEPT ![r] = "done"]

\* POST /generate-post arrives with topic t: generate_content starts and
\* get_recent_news sends its GET to the News Provider
ReceiveRequest(r, t) ==
    /\ pc[r] = "idle"
    /\ topic' = [topic EXCEPT ![r] = t]
    /\ calls' = [calls EXCEPT ![r] = Append(@, NewsCall(t))]
    /\ pc' = [pc EXCEPT ![r] = "await_news"]
    /\ UNCHANGED <<recent_news, title, meta_description, response,
                   news_reply, completions, config>>

\* requests.get comes back: get_recent_news ends; if it returned, the try
\* block is entered and the title call is sent, otherwise its exception
\* leaves generate_content (the call is outside the try block)
NewsAnswers(r, reply) ==
    /\ pc[r] = "await_news"
    /\ news_reply' = [news_reply EXCEPT ![r] = <<reply>>]
    /\ LET got == get_recent_news(reply) IN
        IF got.kind = "return"
        THEN /\ recent_news' = [recent_news EXCEPT ![r] = got.value]
             /\ calls' = [calls EXCEPT ![r] =
                    Append(@, CompletionCall("title",
                                  title_prompt(topic[r], got.value)))]
             /\ pc' = [pc EXCEPT ![r] = "await_title"]
             /\ UNCHANGED response
        ELSE /\ Finish(r, got)
             /\ UNCHANGED <<recent_news, calls>>
    /\ UNCHANGED <<topic, title, meta_description, completions, config>>

\* the title step with one more attempt after a failed call
TitleAnswers_retry(r, reply) ==
    /\ pc[r] = "await_title"
    /\ completions' = [completions EXCEPT ![r] = Append(@, reply)]
    /\ IF reply.kind = "response"
       THEN /\ title' = [title EXCEPT ![r] = strip(reply.text)]
            /\ calls' = [calls EXCEPT ![r] =
                   Append(@, CompletionCall("description",
                                 description_prompt(strip(reply.text))))]
            /\ pc' = [pc EXCEPT ![r] = "await_description"]
            /\ UNCHANGED response
       ELSE IF Len(completions[r]) = 0
       THEN /\ calls' = [calls EXCEPT ![r] =
                   Append(@, CompletionCall("title",
                                 title_prompt(topic[r], recent_news[r])))]
            /\ UNCHANGED <<title, pc, response>>
       ELSE /\ Finish(r, Raise(generation_except(reply.exc)))
            /\ UNCHANGED <<title, calls>>
    /\ UNCHANGED <<topic, recent_news, meta_description, news_reply, config>>

\* the title step with title kept in one module-level variable
TitleAnswers_shared(r, reply) ==
    /\ pc[r] = "await_title"
    /\ completions' = [completions EXCEPT ![r] = Append(@, reply)]
    /\ IF reply.kind = "response"
       THEN /\ title' = [q \in Reqs |-> strip(reply.text)]
            /\ calls' = [calls EXCEPT ![r] =
                   Append(@, CompletionCall("description",
                                 description_prompt(strip(reply.text))))]
            /\ pc' = [pc EXCEPT ![r] = "await_description"]
            /\ UNCHANGED response
       ELSE /\ Finish(r, Raise(generation_except(reply.exc)))
            /\ UNCHANGED <<title, calls>>
    /\ UNCHANGED <<topic, recent_news, meta_description, news_reply, config>>

\* the title call comes back: title is the stripped text and the meta
\* description call is sent, or the exception goes to the except clauses
TitleAnswers(r, reply) ==
    /\ pc[r] = "await_title"
    /\ completions' = [completions EXCEPT ![r] = Append(@, reply)]
    /\ IF reply.kind = "response"
       THEN /\ title' = [title EXCEPT ![r] = strip(reply.text)]
            /\ calls' = [calls EXCEPT ![r] =
                   Append(@, CompletionCall("description",
                                 description_prompt(strip(reply.text))))]
            /\ pc' = [pc EXCEPT ![r] = "await_description"]
            /\ UNCHANGED response
       ELSE /\ Finish(r, Raise(generation_except(reply.exc)))
            /\ UNCHANGED <<title, calls>>
    /\ UNCHANGED <<topic, recent_news, meta_description, news_reply, config>>

\* the meta description call comes back: meta_description is the stripped
\* text and the article body call is sent, or the exception is handled
DescriptionAnswers(r, reply) ==
    /\ pc[r] = "await_description"
    /\ completions' = [completions EXCEPT ![r] = Append(@, reply)]
    /\ IF reply.kind = "response"
       THEN /\ meta_description' =
                   [meta_description EXCEPT ![r] = strip(reply.text)]
            /\ calls' = [calls EXCEPT ![r] =
                   Append(@, CompletionCall("body",
                                 body_prompt(topic[r], recent_news[r])))]
            /\ pc' = [pc EXCEPT ![r] = "await_body"]
            /\ UNCHANGED response
       ELSE /\ Finish(r, Raise(generation_except(reply.exc)))
            /\ UNCHANGED <<meta_description, calls>>
    /\ UNCHANGED <<topic, recent_news, title, news_reply, config>>

\* the article body call comes back: the dict of the three texts is
\* returned, or the exception is handled
BodyAnswers(r, reply) ==
    /\ pc[r] = "await_body"
    /\ completions' = [completions EXCEPT ![r] = Append(@, reply)]
    /\ IF reply.kind = "response"
       THEN Finish(r, Return(content_dict(title[r], meta_description[r],
                                          strip(reply.text))))
       ELSE Finish(r, Raise(generation_except(reply.exc)))
    /\ UNCHANGED <<topic, recent_news, title, meta_description, calls,
                   news_reply, config>>

\* a ChatCompletion.create call of request r comes back
CompletionAnswers(r) ==
    \E reply \in CompletionReplies :
        \/ TitleAnswers(r, reply)
        \/ DescriptionAnswers(r, reply)
        \/ BodyAnswers(r, reply)

\* the steps of different requests interleave freely: this covers a server
\* with several workers as well as the single event loop, on which the
\* blocking calls of one request keep every other request waiting
Next ==
    \E r \in Reqs :
        \/ \E t \in Topics : ReceiveRequest(r, t)
        \/ \E reply \in NewsReplies : NewsAnswers(r, reply)
        \/ CompletionAnswers(r)

Spec == Init /\ [][Next]_vars

\* the openai library ends every call (an answer, an error or its own request
\* timeout); requests.get is called without a timeout, so nothing makes the
\* News Provider call come back
FairSpec == Spec /\ \A r \in Reqs : WF_vars(CompletionAnswers(r))

TypeOK ==
    /\ pc \in [Reqs -> Steps]
    /\ \A r \in Reqs : Len(calls[r]) <= 4 /\ Len(completions[r]) <= 3

-----------------------------------------------------------------------------
(* Vocabulary of the properties *)

Fields == {"title", "meta_description", "post_content"}

\* the exception classes that report a timeout
TimeoutClasses == {"requests.exceptions.Timeout", "openai.error.Timeout"}

Done(r) == pc[r] = "done"

Succeeded(r) == Done(r) /\ response[r].status = 200

\* the News Provider call of r came back and failed
NewsFailed(r) ==
    /\ news_reply[r] # <<>>
    /\ \/ news_reply[r][1].kind = "raise"
       \/ news_reply[r][1].status_code # 200

\* the News Provider call of r came back with a success status
NewsSucceeded(r) ==
    /\ news_reply[r] # <<>>
    /\ news_reply[r][1].kind = "response"
    /\ news_reply[r][1].status_code = 200

\* the i-th completion call of r came back with an exception
CompletionFailed(r, i) ==
    /\ i \in 1..Len(completions[r])
    /\ completions[r][i].kind = "raise"

\* fields of the response of r among the three content fields
ContentFields(r) == DOMAIN response[r].body \cap Fields

\* steps of the outbound calls of r, in order
CallSteps(r) == [i \in 1..Len(calls[r]) |-> calls[r][i].step]

Pipeline == <<"news", "title", "description", "body">>

IsPrefix(s, t) == Len(s) <= Len(t) /\ s = SubSeq(t, 1, Len(s))

\* t is s without its leading and trailing whitespace
IsTrimOf(t, s) ==
    \E i \in 1..(Len(s) + 1) : \E j \in 0..Len(s) :
        /\ t = SubSeq(s, i, j)
        /\ \A k \in 1..(i - 1) : s[k] \in Whitespace
        /\ \A k \in (j + 1)..Len(s) : s[k] \in Whitespace
        /\ t # <<>> => (t[1] \notin Whitespace /\ t[Len(t)] \notin Whitespace)

\* the titles of the first k articles, a newline before each but the first
RECURSIVE TitlesUpTo(_, _)
TitlesUpTo(articles, k) ==
    IF k = 0 THEN <<>>
    ELSE IF k = 1 THEN articles[1].title
    ELSE TitlesUpTo(articles, k - 1) \o <<"\n">> \o articles[k].title

\* number of articles the News Provider answer of r holds
ArticleCount(r) ==
    IF news_reply[r][1].has_news THEN Len(news_reply[r][1].news) ELSE 0

-----------------------------------------------------------------------------
(* C1 *)

\* C1: when the News Provider call of a request fails (a status other than
\* 200 or a network error), the request ends with HTTP 500 and has made no
\* Completion Provider call.
C1_NewsFailureIs500 ==
    \A r \in Reqs :
        NewsFailed(r) =>
            /\ Done(r)
            /\ response[r].status = 500
            /\ completions[r] = <<>>
            /\ \A i \in 1..Len(calls[r]) : calls[r][i].to # "completion"

\* one request failed on a network error and another on a status other than 200
C1_Witness ==
    \E r, q \in Reqs :
        /\ NewsFailed(r) /\ news_reply[r][1].kind = "raise"
        /\ NewsFailed(q) /\ news_reply[q][1].kind = "response"
        /\ Done(r) /\ Done(q)

-----------------------------------------------------------------------------
(* C2 *)

\* C2: when one of the three Completion Provider calls of a request raises a
\* timeout, the request ends with HTTP 504 and its response has none of the
\* fields title, meta_description, post_content.
C2_TimeoutIs504 ==
    \A r \in Reqs :
        (\E i \in 1..Len(completions[r]) :
            /\ CompletionFailed(r, i)
            /\ completions[r][i].exc.cls \in TimeoutClasses)
        => /\ Done(r)
           /\ response[r].status = 504
           /\ ContentFields(r) = {}

-----------------------------------------------------------------------------
(* C3 *)

\* C3: a successful request has made exactly four outbound calls, the News
\* Provider call first and then the title, description and body calls in
\* that order; the title prompt contains the topic and the news-lookup
\* result, the description prompt contains the title returned by the first
\* call (trimmed), the body prompt contains the topic and the same result.
C3_ThreeCallsInOrder ==
    \A r \in Reqs :
        Succeeded(r) =>
            LET news == get_recent_news(news_reply[r][1]).value IN
            /\ CallSteps(r) = Pipeline
            /\ calls[r][1].to = "news"
            /\ \A i \in 2..4 : calls[r][i].to = "completion"
            /\ Len(completions[r]) = 3
            /\ Contains(calls[r][2].content, topic[r])
            /\ Contains(calls[r][2].content, news)
            /\ IsTrimOf(title[r], completions[r][1].text)
            /\ Contains(calls[r][3].content, title[r])
            /\ Contains(calls[r][4].content, topic[r])
            /\ Contains(calls[r][4].content, news)

\* a request succeeded on a lookup that found headlines
C3_Witness ==
    \E r \in Reqs :
        /\ Succeeded(r)
        /\ ArticleCount(r) >= 2
        /\ completions[r][1].text # strip(completions[r][1].text)

-----------------------------------------------------------------------------
(* C4 *)

\* C4: the response of a request is the complete object with the three
\* fields (sent with 200) or an error without any of them; no response has
\* only some of the three fields, whichever outbound call failed.
C4_NoPartialResult ==
    \A r \in Reqs :
        /\ ~Done(r) => response[r] = NoResponse
        /\ Done(r) =>
              \/ response[r].status = 200 /\ ContentFields(r) = Fields
              \/ response[r].status \in {500, 504} /\ ContentFields(r) = {}

\* a request failed on its last call, after the title and the description
\* had been generated, and another one failed on the news lookup
C4_Witness ==
    \E r, q \in Reqs :
        /\ Done(r) /\ CompletionFailed(r, 3)
        /\ Done(q) /\ NewsFailed(q)

-----------------------------------------------------------------------------
(* C5 *)

\* C5: after a successful News Provider answer holding N articles, the
\* news-lookup result is the titles of the first min(N,5) articles joined by
\* newlines in the provider's order when N >= 1, and the "no news found"
\* sentinel when N = 0; it is a value (the title call is made), not an error.
C5_NewsLookupResult ==
    \A r \in Reqs :
        NewsSucceeded(r) =>
            /\ recent_news[r] =
                  IF ArticleCount(r) = 0 THEN NO_NEWS
                  ELSE TitlesUpTo(news_reply[r][1].news, Min(ArticleCount(r), 5))
            /\ Len(calls[r]) >= 2
            /\ calls[r][2].content = title_prompt(topic[r], recent_news[r])
            /\ response[r].status # 500 \/ completions[r] # <<>>

\* one answer held more than five articles and another none
C5_Witness ==
    \E r, q \in Reqs :
        /\ NewsSucceeded(r) /\ ArticleCount(r) = MaxArticles
        /\ NewsSucceeded(q) /\ news_reply[q][1].has_news /\ ArticleCount(q) = 0

-----------------------------------------------------------------------------
(* C6 *)

\* C6: when the four outbound calls succeed, title, meta_description and
\* post_content of the response are the whitespace-trimmed texts returned by
\* the first, second and third Completion Provider call, in that order.
C6_FieldsAreTrimmedTexts ==
    \A r \in Reqs :
        (/\ Done(r)
         /\ NewsSucceeded(r)
         /\ Len(completions[r]) = 3
         /\ \A i \in 1..3 : completions[r][i].kind = "response")
        => /\ response[r].status = 200
           /\ DOMAIN response[r].body = Fields
           /\ IsTrimOf(response[r].body.title, completions[r][1].text)
           /\ IsTrimOf(response[r].body.meta_description, completions[r][2].text)
           /\ IsTrimOf(response[r].body.post_content, completions[r][3].text)

\* two requests succeeded, one on the texts padded, plain, padded and the
\* other on plain, padded, plain
C6_Witness ==
    \E r, q \in Reqs :
        /\ Succeeded(r) /\ Succeeded(q)
        /\ completions[r][1].text # strip(completions[r][1].text)
        /\ completions[r][2].text # completions[r][1].text
        /\ completions[r][3].text = completions[r][1].text
        /\ completions[q][1].text = completions[r][2].text
        /\ completions[q][2].text = completions[r][1].text
        /\ completions[q][3].text = completions[q][1].text

-----------------------------------------------------------------------------
(* C7 *)

\* C7: when the News Provider call of a request succeeded and one of its
\* Completion Provider calls fails with an error that is not a timeout, the
\* request ends with HTTP 500 whose detail contains the message of the cause;
\* it ends neither with 504 nor with a success body.
C7_OtherErrorIs500 ==
    \A r \in Reqs : \A i \in 1..Len(completions[r]) :
        (/\ NewsSucceeded(r)
         /\ CompletionFailed(r, i)
         /\ completions[r][i].exc.cls \notin TimeoutClasses)
        => /\ Done(r)
           /\ response[r].status = 500
           /\ DOMAIN response[r].body = {"detail"}
           /\ Contains(response[r].body.detail, completions[r][i].exc.msg)

\* the provider error hit the title call of one request and the body call of
\* another
C7_Witness ==
    \E r, q \in Reqs :
        /\ CompletionFailed(r, 1)
        /\ completions[r][1].exc.cls = "openai.error.APIError"
        /\ CompletionFailed(q, 3)
        /\ completions[q][3].exc.cls = "openai.error.APIError"
        /\ Done(r) /\ Done(q)

-----------------------------------------------------------------------------
(* C8 *)

\* C8: every request whose News Provider call is under way eventually ends
\* in a response, even when the News Provider never answers.
C8_NewsLookupEnds ==
    \A r \in Reqs : (pc[r] = "await_news") ~> Done(r)

-----------------------------------------------------------------------------
(* C9 *)

\* C9: no retries: the outbound calls of a request are a prefix of news,
\* title, description, body (each made at most once), and once a call has
\* failed the request is over and has made no later call.
C9_NoRetries ==
    \A r \in Reqs :
        /\ IsPrefix(CallSteps(r), Pipeline)
        /\ Len(completions[r]) <= 3
        /\ Len(news_reply[r]) <= 1
        /\ NewsFailed(r) => Done(r) /\ Len(calls[r]) = 1
        /\ \A i \in 1..Len(completions[r]) :
              CompletionFailed(r, i) =>
                  /\ Done(r)
                  /\ Len(completions[r]) = i
                  /\ Len(calls[r]) = i + 1

\* one request failed on its title call and another on its description call
C9_Witness ==
    \E r, q \in Reqs :
        /\ CompletionFailed(r, 1) /\ Done(r)
        /\ CompletionFailed(q, 2) /\ Done(q)

-----------------------------------------------------------------------------
(* C10 *)

\* the response of generate_content run on its own with topic t, the News
\* Provider outcome n and the Completion Provider outcomes cs
ResponseAlone(t, n, cs) ==
    LET got == get_recent_news(n) IN
    IF got.kind = "raise" THEN http_response(got)
    ELSE IF cs[1].kind = "raise"
    THEN http_response(Raise(generation_except(cs[1].exc)))
    ELSE IF cs[2].kind = "raise"
    THEN http_response(Raise(generation_except(cs[2].exc)))
    ELSE IF cs[3].kind = "raise"
    THEN http_response(Raise(generation_except(cs[3].exc)))
    ELSE http_response(Return(content_dict(strip(cs[1].text),
                                           strip(cs[2].text),
                                           strip(cs[3].text))))

\* the k-th outbound call of generate_content run on its own
CallAlone(k, t, n, cs) ==
    CASE k = 1 -> NewsCall(t)
      [] k = 2 -> CompletionCall("title",
                      title_prompt(t, get_recent_news(n).value))
      [] k = 3 -> CompletionCall("description",
                      description_prompt(strip(cs[1].text)))
      [] k = 4 -> CompletionCall("body",
                      body_prompt(t, get_recent_news(n).value))

\* what request r holds is a function of its own topic and of the outcomes
\* of its own calls
OwnResults(r) ==
    /\ Done(r) =>
          response[r] = ResponseAlone(topic[r], news_reply[r][1], completions[r])
    /\ \A k \in 1..Len(calls[r]) :
          calls[r][k] =
              CallAlone(k, topic[r],
                        IF k >= 2 THEN news_reply[r][1] ELSE <<>>,
                        completions[r])

\* a step of one request leaves everything the other requests hold
\* unchanged, and no step writes the module-level configuration
NoCrossWrites ==
    /\ config' = config
    /\ \A r \in Reqs :
        pc'[r] = pc[r] =>
            /\ topic'[r] = topic[r]
            /\ recent_news'[r] = recent_news[r]
            /\ title'[r] = title[r]
            /\ meta_description'[r] = meta_description[r]
            /\ response'[r] = response[r]
            /\ calls'[r] = calls[r]
            /\ news_reply'[r] = news_reply[r]
            /\ completions'[r] = completions[r]

\* C10: concurrent requests do not interfere: under every interleaving, the
\* calls and the response of a request are those of the same request run on
\* its own with its topic and the outcomes of its own calls, and no step of
\* a request changes what another request holds or the shared configuration.
C10_NoInterference ==
    /\ [](\A r \in Reqs : OwnResults(r))
    /\ [][NoCrossWrites]_vars

\* two requests are under way at the same time, one waiting for its article
\* body and the other for its meta description, on different topics, different
\* headlines and different titles
C10_Witness ==
    \E r, q \in Reqs :
        /\ pc[r] = "await_body" /\ pc[q] = "await_description"
        /\ topic[r] # topic[q]
        /\ title[r] # title[q]
        /\ recent_news[r] # recent_news[q]

====
